---- MODULE Spec2Model ----
(***************************************************************************)
(* Photon motion and trail lifecycle of the photon-wander simulation.      *)
(*                                                                         *)
(* Index (src/pages/Index.tsx) owns the React state photons, trails and    *)
(* isPaused.  Scene and Photon (PhotonSimulation, part_002 lines 454-997)  *)
(* are rendered in the react-three-fiber root from these props: their      *)
(* callbacks (Photon useFrame, Scene.handlePhotonUpdate, the reap effect)  *)
(* close over the props of the last Scene render, kept here in `scene`.    *)
(*                                                                         *)
(* Lengths are fixed-point integers, one unit = 1/10000 of a length unit,  *)
(* and THREE.Vector3 values are restricted to the x axis (y = z = 0), so   *)
(* length(), normalize() and distanceTo() are exact: |x|, sign(x), |a-b|.  *)
(* A Vector3 object that the code mutates in place (photon.position) is a  *)
(* reference into `heap`; vectors the code only ever replaces or clones    *)
(* (velocity, path points) are plain values.                               *)
(*                                                                         *)
(* Scheduling assumed of React: a state setter called from a callback      *)
(* takes effect on Index's state in call order (a batch of setPhotons      *)
(* calls leaves the last value); the Scene re-renders some time after its  *)
(* props changed; the passive effect of a Scene render runs some time      *)
(* after that render and before the next Scene render; animation frames    *)
(* and user clicks can come at any point in between.                       *)
(***************************************************************************)
EXTENDS Integers, Sequences, FiniteSets, TLC

VARIABLES photons, trails, isPaused, photonIdCounter,
          heap, nextRef, scene, photonsChanged, effectPending, now, staleFrames,
          photonCount

vars == <<photons, trails, isPaused, photonIdCounter,
          heap, nextRef, scene, photonsChanged, effectPending, now, staleFrames,
          photonCount>>

----------------------------------------------------------------------------
(* Program constants, in units of 1/10000.                                 *)

SPHERE_RADIUS == 35000

MAX_DISTANCE == 250000

DISTANCE_THRESHOLD == 1000

MAX_PHOTONS == 8

\* multiplyScalar(0.5): speed of the radial velocity set at the boundary
EXIT_SPEED == 5000

\* speed * 3 of the outside branch
OUTSIDE_FACTOR == 3

\* multiplyScalar(0.01) of the seed path's second point is a division by this
SEED_DIVISOR == 100

\* Date.now() is a wall-clock millisecond count, far above any counter id
DATE_NOW_BASE == 1000000

----------------------------------------------------------------------------
(* Bounds of the model.                                                    *)

\* photons spawned in a run, the initial one included (caps nextRef and
\* with it photonIdCounter)
MaxSpawn == 2

\* clock readings Date.now() can advance through
MaxClock == 1

\* a frame runs only while every path it extends is shorter than this
MaxPath == 5

\* trails the trail collection can grow to
MaxTrails == 2

\* frames that can run between two renders of the Scene
MaxStale == 1

\* a frame runs only while every position it moves is within this distance
MaxCoord == 400000

\* values of settings.photonSpeed * delta * 2 drawn for a frame
Speeds == {4, 8}

\* values of settings.stepDistance drawn for a frame (slider maximum 3.2)
StepDistances == {32000}

\* x components drawn by createPhoton for the initial velocity (the code
\* draws from the interval (-0.05, 0.05))
InitVelocities == {0}

\* longest path of the photon the reap effect of SpecTrail is given
MaxTrailPath == 3

\* photons spawned in a run of SpecLive: two live ones and a replacement
MaxSpawnLive == 3

\* photons spawned in a run of SpecCap: one more than fills the collection
MaxSpawnCap == 9

\* the frame inputs of SpecCap
CapSpeeds == {8}

CapStepDistances == {32000}

CapDraws == {1}

\* outcome of the direction change of one photon in one frame:
\* 0 = Math.random() >= 0.3 (keep the velocity), 1 / -1 = new unit direction
Draws == {0, 1, -1}

----------------------------------------------------------------------------
(* THREE.Vector3 on the x axis.                                            *)

Abs(x) == IF x < 0 THEN -x ELSE x

Length(v) == Abs(v)

\* Vector3.normalize(): divideScalar(length() || 1)
Normalize(v) == IF v > 0 THEN 1 ELSE IF v < 0 THEN -1 ELSE 0

DistanceTo(a, b) == Abs(a - b)

Last(s) == s[Len(s)]

----------------------------------------------------------------------------
(* Index.tsx                                                               *)

\* a createPhoton that seeds no path
createPhotonNoSeed(id, ref, velocity) ==
  [ id |-> id,
    position |-> ref,
    velocity |-> velocity,
    path |-> <<>>,
    isOutside |-> FALSE,
    distanceFromCenter |-> 0 ]

\* createPhoton(): the record; its position object is heap cell `ref`
createPhoton(id, ref, velocity) ==
  [ id |-> id,
    position |-> ref,
    velocity |-> velocity,
    path |-> <<0, 0 + velocity \div SEED_DIVISOR>>,
    isOutside |-> FALSE,
    distanceFromCenter |-> 0 ]

\* the capacity check of ControlPanel.handleAddPhoton (photonCount >=
\* maxPhotons) and of Index.handleAddPhoton (photons.length < MAX_PHOTONS)
AtCapacity(count) == count >= MAX_PHOTONS

\* a setTrails that stores the completed trails in place of the collection
handlePhotonsUpdateTrailsReplace(prev, completedTrails) == completedTrails

\* handlePhotonsUpdate(updatedPhotons, completedTrails?) on the trail state
handlePhotonsUpdateTrails(prev, completedTrails) == prev \o completedTrails

----------------------------------------------------------------------------
(* Photon useFrame: one photon's step.  Returns the new photon record and  *)
(* the value left in the photon's (shared) position object.                *)

\* a step that also records a move of exactly the threshold
StepThresholdInclusive(photon, pos0, speed, stepDistance, draw) ==
  LET path1 == IF Len(photon.path) < 2 THEN Append(photon.path, pos0)
               ELSE photon.path
      inside == ~photon.isOutside
      vel1 == IF inside /\ draw # 0 THEN draw * stepDistance
              ELSE photon.velocity
      pos1 == IF inside THEN pos0 + vel1 * speed
              ELSE pos0 + vel1 * (speed * OUTSIDE_FACTOR)
      dist == Length(pos1)
      hit == inside /\ dist >= SPHERE_RADIUS
      pos2 == IF hit THEN Normalize(pos1) * SPHERE_RADIUS ELSE pos1
      vel2 == IF hit THEN Normalize(pos2) * EXIT_SPEED ELSE vel1
      path2 == IF Len(path1) = 0 \/ DistanceTo(Last(path1), pos2) >= DISTANCE_THRESHOLD
               THEN Append(path1, pos2) ELSE path1
  IN [ photon |-> [ id |-> photon.id,
                    position |-> photon.position,
                    velocity |-> vel2,
                    path |-> path2,
                    isOutside |-> (photon.isOutside \/ hit),
                    distanceFromCenter |-> dist ],
       pos |-> pos2 ]

\* a step whose boundary transition keeps the velocity of the crossing
StepKeepsVelocity(photon, pos0, speed, stepDistance, draw) ==
  LET path1 == IF Len(photon.path) < 2 THEN Append(photon.path, pos0)
               ELSE photon.path
      inside == ~photon.isOutside
      vel1 == IF inside /\ draw # 0 THEN draw * stepDistance
              ELSE photon.velocity
      pos1 == IF inside THEN pos0 + vel1 * speed
              ELSE pos0 + vel1 * (speed * OUTSIDE_FACTOR)
      dist == Length(pos1)
      hit == inside /\ dist >= SPHERE_RADIUS
      pos2 == IF hit THEN Normalize(pos1) * SPHERE_RADIUS ELSE pos1
      vel2 == vel1
      path2 == IF Len(path1) = 0 \/ DistanceTo(Last(path1), pos2) > DISTANCE_THRESHOLD
               THEN Append(path1, pos2) ELSE path1
  IN [ photon |-> [ id |-> photon.id,
                    position |-> photon.position,
                    velocity |-> vel2,
                    path |-> path2,
                    isOutside |-> (photon.isOutside \/ hit),
                    distanceFromCenter |-> dist ],
       pos |-> pos2 ]

Step(photon, pos0, speed, stepDistance, draw) ==
  LET path1 == IF Len(photon.path) < 2 THEN Append(photon.path, pos0)
               ELSE photon.path
      inside == ~photon.isOutside
      vel1 == IF inside /\ draw # 0 THEN draw * stepDistance
              ELSE photon.velocity
      pos1 == IF inside THEN pos0 + vel1 * speed
              ELSE pos0 + vel1 * (speed * OUTSIDE_FACTOR)
      dist == Length(pos1)
      hit == inside /\ dist >= SPHERE_RADIUS
      pos2 == IF hit THEN Normalize(pos1) * SPHERE_RADIUS ELSE pos1
      vel2 == IF hit THEN Normalize(pos2) * EXIT_SPEED ELSE vel1
      path2 == IF Len(path1) = 0 \/ DistanceTo(Last(path1), pos2) > DISTANCE_THRESHOLD
               THEN Append(path1, pos2) ELSE path1
  IN [ photon |-> [ id |-> photon.id,
                    position |-> photon.position,
                    velocity |-> vel2,
                    path |-> path2,
                    isOutside |-> (photon.isOutside \/ hit),
                    distanceFromCenter |-> dist ],
       pos |-> pos2 ]

\* a frame callback without the pause gate
PauseGateNever(isPausedProp) == FALSE

\* the pause gate at the top of the useFrame callback, on the isPaused prop
PauseGate(isPausedProp) == isPausedProp

\* Scene.handlePhotonUpdate: photons.map over the photons of the last render
handlePhotonUpdate(ps, updatedPhoton) ==
  [j \in 1..Len(ps) |-> IF ps[j].id = updatedPhoton.id THEN updatedPhoton ELSE ps[j]]

\* The useFrame callbacks of the Photon components i..Len(ps) of one frame,
\* in order: h is the heap so far, cur the value of the last setPhotons call.
RECURSIVE FrameFrom(_, _, _, _, _, _, _)
FrameFrom(i, ps, h, cur, speed, stepDistance, draws) ==
  IF i > Len(ps) THEN [heap |-> h, photons |-> cur]
  ELSE LET r == Step(ps[i], h[ps[i].position], speed, stepDistance, draws[i])
       IN FrameFrom(i + 1, ps,
                    [h EXCEPT ![ps[i].position] = r.pos],
                    handlePhotonUpdate(ps, r.photon),
                    speed, stepDistance, draws)

----------------------------------------------------------------------------
(* Scene reap effect.                                                      *)

IsActive(p) == p.distanceFromCenter < MAX_DISTANCE

IsRemoved(p) == p.distanceFromCenter >= MAX_DISTANCE

\* a filter that keeps every photon, escaped or not
activePhotonsAll(ps) == ps

activePhotons(ps) == SelectSeq(ps, IsActive)

removedPhotons(ps) == SelectSeq(ps, IsRemoved)

\* a trail construction that copies the path without padding it
TrailOfUnpadded(p, h) == [id |-> p.id, path |-> p.path]

\* the trail built from one removed photon
TrailOf(p, h) ==
  [ id |-> p.id,
    path |-> IF Len(p.path) < 2 /\ Len(p.path) > 0 THEN Append(p.path, p.path[1])
             ELSE IF Len(p.path) = 0 THEN <<h[p.position], h[p.position]>>
             ELSE p.path ]

\* an effect that never spawns a replacement photon
SpawnsReplacementNever(ps, active) == FALSE

\* an effect that spawns a photon on every run
SpawnsReplacementAlways(ps, active) == TRUE

\* the condition under which the effect spawns a replacement photon
SpawnsReplacement(ps, active) == Len(active) < Len(ps) /\ Len(active) = 0

newTrails(ps, h) ==
  LET rs == removedPhotons(ps) IN [k \in 1..Len(rs) |-> TrailOf(rs[k], h)]

----------------------------------------------------------------------------
(* Line colours of the Photon path effect and of the TrailRenderer.  A     *)
(* colour is <<r, g, b>> with each channel of the hex literal (0..255) in  *)
(* units of 1/100; a fade factor is in units of 1/10000.                   *)

MAX_TRAIL_SEGMENTS == 2000

\* new THREE.Color(0x370307) and new THREE.Color(0xc85e0a)
COLOR_CORE == <<55 * 100, 3 * 100, 7 * 100>>

COLOR_SURFACE == <<200 * 100, 94 * 100, 10 * 100>>

Max(a, b) == IF a >= b THEN a ELSE b

Min(a, b) == IF a <= b THEN a ELSE b

\* Color.lerpColors(c1, c2, t) with t = d / radius
LerpColors(c1, c2, d, radius) ==
  [ch \in 1..3 |-> c1[ch] + ((c2[ch] - c1[ch]) * d) \div radius]

\* Color.multiplyScalar(fade)
MultiplyScalar(c, fade) == [ch \in 1..3 |-> (c[ch] * fade) \div 10000]

\* Math.exp(-x) for x >= 0 in fixed point: e^-1 = 0.3679 per whole unit and
\* the series 1 - r + r^2/2 - r^3/6 for the fraction r
RECURSIVE ExpNegUnits(_)
ExpNegUnits(q) == IF q = 0 THEN 10000 ELSE (ExpNegUnits(q - 1) * 3679) \div 10000

ExpNeg(x) ==
  LET r == x % 10000
      frac == 10000 - r + (r * r) \div 20000 - (((r * r) \div 10000) * r) \div 60000
  IN (ExpNegUnits(x \div 10000) * frac) \div 10000

\* the distances start.length() of the segments the renderers colour
SegmentStartDistances(path) ==
  {Length(path[i]) : i \in 1..Min(Len(path) - 1, MAX_TRAIL_SEGMENTS)}

\* Photon path effect: colour and fade of a segment starting at distance d
\* (inside the sphere the colour is not faded: factor 1)
PhotonSegmentColor(d) ==
  IF d <= SPHERE_RADIUS
  THEN [color |-> LerpColors(COLOR_CORE, COLOR_SURFACE, d, SPHERE_RADIUS),
        fade |-> 10000]
  ELSE LET fadeDistance == Max(0, (d - SPHERE_RADIUS) \div 10)
           fade == Max(1000, ExpNeg(fadeDistance))
       IN [color |-> MultiplyScalar(COLOR_SURFACE, fade), fade |-> fade]

\* a trail renderer that fades twice as fast
TrailSegmentColorFastFade(d) ==
  IF d <= SPHERE_RADIUS
  THEN [color |-> LerpColors(COLOR_CORE, COLOR_SURFACE, d, SPHERE_RADIUS),
        fade |-> 10000]
  ELSE LET fadeDistance == Max(0, (d - SPHERE_RADIUS) \div 5)
           fade == Max(1000, ExpNeg(fadeDistance))
       IN [color |-> MultiplyScalar(COLOR_SURFACE, fade), fade |-> fade]

\* TrailRenderer: colour and fade of a segment starting at distance d
TrailSegmentColor(d) ==
  IF d <= SPHERE_RADIUS
  THEN [color |-> LerpColors(COLOR_CORE, COLOR_SURFACE, d, SPHERE_RADIUS),
        fade |-> 10000]
  ELSE LET fadeDistance == Max(0, (d - SPHERE_RADIUS) \div 10)
           fade == Max(1000, ExpNeg(fadeDistance))
       IN [color |-> MultiplyScalar(COLOR_SURFACE, fade), fade |-> fade]

----------------------------------------------------------------------------
(* The heap of position objects: nextRef is the reference the next new     *)
(* object gets, and an object no record refers to any more is dropped.     *)

Refs(ps) == {ps[i].position : i \in 1..Len(ps)}

Collect(h, ps1, ps2) ==
  [r \in (DOMAIN h) \cap (Refs(ps1) \cup Refs(ps2)) |-> h[r]]

\* new THREE.Vector3(0, 0, 0) stored in the new object ref
Alloc(h, ref) == [r \in DOMAIN h \cup {ref} |-> IF r = ref THEN 0 ELSE h[r]]

----------------------------------------------------------------------------
Init ==
  /\ \E v \in InitVelocities : photons = <<createPhoton(0, 0, v)>>
  /\ trails = <<>>
  /\ isPaused = FALSE
  /\ photonIdCounter = 1
  /\ heap = [r \in {0} |-> 0]
  /\ nextRef = 1
  /\ scene = [photons |-> photons, isPaused |-> FALSE]
  /\ photonsChanged = FALSE
  /\ effectPending = TRUE
  /\ now = 0
  /\ staleFrames = 0
  /\ photonCount = Len(photons)

\* One animation frame: the useFrame callback of every mounted Photon.
Frame(speed, stepDistance, draws) ==
  /\ staleFrames < MaxStale
  /\ \A i \in 1..Len(scene.photons) :
        /\ Len(scene.photons[i].path) < MaxPath
        /\ Abs(heap[scene.photons[i].position]) < MaxCoord
  /\ IF PauseGate(scene.isPaused)
     THEN UNCHANGED <<photons, heap, photonsChanged, staleFrames>>
     ELSE LET r == FrameFrom(1, scene.photons, heap, photons,
                             speed, stepDistance, draws)
          IN /\ photons' = r.photons
             /\ heap' = Collect(r.heap, r.photons, scene.photons)
             /\ photonsChanged' = TRUE
             /\ staleFrames' = staleFrames + 1
  /\ UNCHANGED <<trails, isPaused, photonIdCounter, nextRef, scene, effectPending,
                 now, photonCount>>

\* Index re-renders after a setPhotons call made outside its own handlers (by
\* a frame or by the reap effect): its handlers and the photonCount prop of
\* the ControlPanel now close over the current photons.
IndexRender ==
  /\ photonCount # Len(photons)
  /\ photonCount' = Len(photons)
  /\ UNCHANGED <<photons, trails, isPaused, photonIdCounter, heap, nextRef, scene,
                 photonsChanged, effectPending, now, staleFrames>>

\* The Scene (and its Photon children) re-render with the props of Index's
\* render.
SceneRender ==
  /\ ~effectPending
  /\ photonCount = Len(photons)
  /\ photonsChanged \/ scene.isPaused # isPaused
  /\ scene' = [photons |-> photons, isPaused |-> isPaused]
  /\ effectPending' = photonsChanged
  /\ photonsChanged' = FALSE
  /\ heap' = Collect(heap, photons, photons)
  /\ staleFrames' = 0
  /\ UNCHANGED <<photons, trails, isPaused, photonIdCounter, nextRef, now, photonCount>>

\* The reap effect of the last Scene render; t is the reading of Date.now()
\* and velocity the random velocity of a replacement photon.  (maxSpawn, here
\* and below, is the model's bound on the photons spawned in a run.)
Reap(t, velocity, maxSpawn) ==
  /\ effectPending
  /\ effectPending' = FALSE
  /\ LET ps == scene.photons
         active == activePhotons(ps)
         completed == newTrails(ps, heap)
     IN IF SpawnsReplacement(ps, active)
        THEN /\ Len(trails) + Len(completed) <= MaxTrails
             /\ nextRef < maxSpawn
             /\ now' = t
             /\ photons' = <<createPhoton(DATE_NOW_BASE + t, nextRef, velocity)>>
             /\ heap' = Collect(Alloc(heap, nextRef), photons', ps)
             /\ nextRef' = nextRef + 1
             /\ trails' = handlePhotonsUpdateTrails(trails, completed)
             /\ photonsChanged' = TRUE
        ELSE IF Len(active) # Len(ps)
        THEN /\ Len(trails) + Len(completed) <= MaxTrails
             /\ photons' = active
             /\ heap' = Collect(heap, active, ps)
             /\ trails' = handlePhotonsUpdateTrails(trails, completed)
             /\ photonsChanged' = TRUE
             /\ UNCHANGED <<now, nextRef>>
        ELSE UNCHANGED <<photons, heap, trails, photonsChanged, now, nextRef>>
  /\ UNCHANGED <<isPaused, photonIdCounter, scene, staleFrames, photonCount>>

\* ControlPanel.handleAddPhoton and Index.handleAddPhoton: both checks read
\* the photons of Index's last render, the append reads the current state
\* (prev).  The click is a discrete event: Index re-renders with its update
\* applied before the next handler runs.
AddPhoton(velocity, maxSpawn) ==
  /\ IF AtCapacity(photonCount)
     THEN UNCHANGED <<photons, heap, photonIdCounter, nextRef, photonsChanged,
                      photonCount>>
     ELSE /\ nextRef < maxSpawn
          /\ photons' = Append(photons, createPhoton(photonIdCounter, nextRef, velocity))
          /\ heap' = Alloc(heap, nextRef)
          /\ nextRef' = nextRef + 1
          /\ photonIdCounter' = photonIdCounter + 1
          /\ photonsChanged' = TRUE
          /\ photonCount' = photonCount + 1
  /\ UNCHANGED <<trails, isPaused, scene, effectPending, now, staleFrames>>

\* Index.handleReset
Reset(velocity, maxSpawn) ==
  /\ nextRef < maxSpawn
  /\ photons' = <<createPhoton(photonIdCounter, nextRef, velocity)>>
  /\ trails' = <<>>
  /\ heap' = Collect(Alloc(heap, nextRef), photons', scene.photons)
  /\ nextRef' = nextRef + 1
  /\ photonIdCounter' = photonIdCounter + 1
  /\ photonsChanged' = TRUE
  /\ photonCount' = Len(photons')
  /\ UNCHANGED <<isPaused, scene, effectPending, now, staleFrames>>

\* onPauseToggle
PauseToggle ==
  /\ isPaused' = ~isPaused
  /\ UNCHANGED <<photons, trails, photonIdCounter, heap, nextRef, scene,
                 photonsChanged, effectPending, now, staleFrames, photonCount>>

Next ==
  \/ \E speed \in Speeds, stepDistance \in StepDistances,
        draws \in [1..Len(scene.photons) -> Draws] :
        Frame(speed, stepDistance, draws)
  \/ IndexRender
  \/ SceneRender
  \/ \E t \in now..MaxClock, velocity \in InitVelocities :
        Reap(t, velocity, MaxSpawn)
  \/ \E velocity \in InitVelocities : AddPhoton(velocity, MaxSpawn)
  \/ \E velocity \in InitVelocities : Reset(velocity, MaxSpawn)
  \/ PauseToggle

Spec == Init /\ [][Next]_vars

----------------------------------------------------------------------------
(* The program under add requests, frames and reaps only (no reset, no     *)
(* pause), with inputs chosen to fill the live collection: up to           *)
(* MaxSpawnCap photons are spawned, and in every frame, which has the      *)
(* largest speed, every photon draws the same new direction.               *)

NextCap ==
  \/ \E draw \in CapDraws :
        \E speed \in CapSpeeds, stepDistance \in CapStepDistances :
          Frame(speed, stepDistance, [i \in 1..Len(scene.photons) |-> draw])
  \/ IndexRender
  \/ SceneRender
  \/ \E t \in now..MaxClock, velocity \in InitVelocities :
        Reap(t, velocity, MaxSpawnCap)
  \/ \E velocity \in InitVelocities : AddPhoton(velocity, MaxSpawnCap)

SpecCap == Init /\ [][NextCap]_vars

----------------------------------------------------------------------------
(* The reap effect on its own, given as the photons prop one photon of any *)
(* shape PhotonData allows: a path of 0 to MaxTrailPath points, a position *)
(* and a stored distance below or beyond MAX_DISTANCE.                     *)

TrailPoints == {0, SPHERE_RADIUS, MAX_DISTANCE + 10000}

TrailPaths == UNION {[1..n -> TrailPoints] : n \in 0..MaxTrailPath}

InitTrail ==
  /\ \E path \in TrailPaths, pos \in TrailPoints, d \in {0, MAX_DISTANCE} :
        /\ photons = <<[ id |-> 0, position |-> 0, velocity |-> EXIT_SPEED,
                         path |-> path, isOutside |-> TRUE,
                         distanceFromCenter |-> d ]>>
        /\ heap = [r \in {0} |-> pos]
  /\ trails = <<>>
  /\ isPaused = FALSE
  /\ photonIdCounter = 1
  /\ nextRef = 1
  /\ scene = [photons |-> photons, isPaused |-> FALSE]
  /\ photonsChanged = FALSE
  /\ effectPending = TRUE
  /\ now = 0
  /\ staleFrames = 0
  /\ photonCount = Len(photons)

NextTrail ==
  \E t \in now..MaxClock, velocity \in InitVelocities : Reap(t, velocity, MaxSpawn)

SpecTrail == InitTrail /\ [][NextTrail]_vars

----------------------------------------------------------------------------
(* The program under frames with steps around DISTANCE_THRESHOLD: one      *)
(* photon walks in one direction in steps of 0.05, 0.1, 0.1001 and 0.2.    *)

PathSpeeds == {1}

PathStepDistances == {500, 1000, 1001, 2000}

PathDraws == {0, 1}

NextPath ==
  \/ \E speed \in PathSpeeds, stepDistance \in PathStepDistances,
        draws \in [1..Len(scene.photons) -> PathDraws] :
        Frame(speed, stepDistance, draws)
  \/ SceneRender
  \/ \E t \in now..MaxClock, velocity \in InitVelocities :
        Reap(t, velocity, MaxSpawn)

SpecPath == Init /\ [][NextPath]_vars

----------------------------------------------------------------------------
(* The running simulation under fair scheduling: never paused, never       *)
(* reset, at most one photon added by the user.  Every frame comes after   *)
(* React has rendered the last update and run its effect, so no callback   *)
(* works on stale props; frames, renders and effects that can run do run.  *)

LiveSpeeds == {8}

LiveStepDistances == {32000}

LiveDraws == {0, 1}

FrameLive ==
  /\ ~effectPending /\ ~photonsChanged
  /\ \E speed \in LiveSpeeds, stepDistance \in LiveStepDistances,
        draws \in [1..Len(scene.photons) -> LiveDraws] :
        Frame(speed, stepDistance, draws)

ReapLive ==
  \E t \in now..MaxClock, velocity \in InitVelocities :
     Reap(t, velocity, MaxSpawnLive)

AddPhotonLive == \E velocity \in InitVelocities : AddPhoton(velocity, MaxSpawn)

NextLive ==
  \/ FrameLive
  \/ IndexRender
  \/ SceneRender
  \/ ReapLive
  \/ AddPhotonLive

SpecLive ==
  /\ Init /\ [][NextLive]_vars
  /\ WF_vars(FrameLive) /\ WF_vars(IndexRender)
  /\ WF_vars(SceneRender) /\ WF_vars(ReapLive)

----------------------------------------------------------------------------
(* Claims.                                                                 *)

\* the inputs of a frame of Spec
FrameInputs ==
  [speed : Speeds, stepDistance : StepDistances,
   draws : [1..Len(scene.photons) -> Draws]]

\* the frame now stepping was rendered from the current live collection
FrameIsCurrent == scene.photons = photons /\ ~scene.isPaused

\* C1: in one tick with n >= 1 live, unpaused particles every particle is
\* advanced: the live collection committed by the tick holds, for each
\* particle, the step-function result of that particle's pre-tick state.
C1_EveryParticleAdvanced ==
  [][\A in \in FrameInputs :
       (Frame(in.speed, in.stepDistance, in.draws) /\ FrameIsCurrent)
       => /\ Len(photons') = Len(photons)
          /\ \A i \in 1..Len(photons) :
                photons'[i] = Step(photons[i], heap[photons[i].position],
                                   in.speed, in.stepDistance, in.draws[i]).photon
    ]_vars

\* C2: the trail collection never holds two trails with the same particle
\* id (every escaped particle appears exactly once in it).
C2_OneTrailPerParticle ==
  \A i, j \in 1..Len(trails) : i # j => trails[i].id # trails[j].id

\* C3: reap runs between the tick that takes a particle to or past the
\* cutoff and the next tick: no particle is stepped by a frame while its
\* stored distanceFromCenter is already >= MAX_DISTANCE.
C3_NoStepPastCutoff ==
  [][\A in \in FrameInputs :
       (Frame(in.speed, in.stepDistance, in.draws) /\ ~scene.isPaused)
       => \A i \in 1..Len(scene.photons) :
             scene.photons[i].distanceFromCenter < MAX_DISTANCE
    ]_vars

\* the inputs of the reap effect of Spec
ReapInputs == [t : now..MaxClock, velocity : InitVelocities]

\* C4: after every reap the live-particle count is >= 1 (a reap that removes
\* every live particle spawns a replacement), so the live set is never empty.
C4_LiveNonEmpty == Len(photons) >= 1 /\ Len(scene.photons) >= 1

\* a reap has retired the whole population and spawned the replacement
C4_Witness ==
  /\ Len(photons) = 1
  /\ photons[1].id >= DATE_NOW_BASE
  /\ Len(trails) >= 1

\* C5: the live collection never holds more than MAX_PHOTONS particles, and
\* an add request made when it holds MAX_PHOTONS leaves it unchanged.
C5_Capacity ==
  /\ [](Len(photons) <= MAX_PHOTONS)
  /\ [][\A velocity \in InitVelocities :
          (AddPhoton(velocity, MaxSpawnCap) /\ Len(photons) = MAX_PHOTONS)
          => photons' = photons
       ]_vars

\* the state a reset leaves, not yet rendered by the Scene: one fresh
\* createPhoton() particle at the origin, Inside, 2-point path, no trails
ResetUnrendered ==
  /\ trails = <<>>
  /\ \E velocity \in InitVelocities :
        photons = <<createPhoton(photonIdCounter - 1, nextRef - 1, velocity)>>
  /\ heap[nextRef - 1] = 0
  /\ (nextRef - 1) \notin Refs(scene.photons)

\* C6: the state that follows reset() has exactly the one fresh particle and
\* no trails, also when a tick or reap update computed from the pre-reset
\* live set (the Scene has not rendered the reset yet) is applied after it.
C6_ResetStands ==
  [][(/\ ResetUnrendered
      /\ \/ \E in \in FrameInputs : Frame(in.speed, in.stepDistance, in.draws)
         \/ \E r \in ReapInputs : Reap(r.t, r.velocity, MaxSpawn))
     => (photons' = photons /\ trails' = <<>>)
    ]_vars

\* C7: an Inside-phase step that takes a particle from below SPHERE_RADIUS to
\* SPHERE_RADIUS or beyond produces isOutside = TRUE and distanceFromCenter
\* equal to SPHERE_RADIUS exactly.
C7_BoundaryDistance ==
  [][\A in \in FrameInputs :
       (Frame(in.speed, in.stepDistance, in.draws) /\ ~scene.isPaused)
       => \A i \in 1..Len(scene.photons) :
            LET p == scene.photons[i]
                q == Step(p, heap[p.position], in.speed, in.stepDistance,
                          in.draws[i]).photon
            IN (~p.isOutside /\ Length(heap[p.position]) < SPHERE_RADIUS
                             /\ Length(heap'[p.position]) >= SPHERE_RADIUS)
               => (q.isOutside /\ q.distanceFromCenter = SPHERE_RADIUS)
    ]_vars

\* C8: once isOutside is true for a particle of the live collection it is
\* true in every later state of the live collection that still holds it.
C8_PhaseMonotonic ==
  [][\A i \in 1..Len(photons), j \in 1..Len(photons') :
       (/\ photons[i].id = photons'[j].id
        /\ photons[i].position = photons'[j].position
        /\ photons[i].isOutside)
       => photons'[j].isOutside
    ]_vars

\* the k-th smallest index of a set of indices
KthIndex(S, k) == CHOOSE i \in S : Cardinality({j \in S : j < i}) = k - 1

\* C9: a reap that finds every live particle escaped appends one trail per
\* escaped particle, carrying its id, and replaces the live set by exactly
\* one new particle at the origin, Inside, distanceFromCenter 0; a reap that
\* finds some particle active spawns nothing and leaves exactly the active
\* particles; a reap that finds none escaped changes nothing.
C9_ReapOutcome ==
  [][\A r \in ReapInputs :
       Reap(r.t, r.velocity, MaxSpawn)
       => LET ps == scene.photons
              escaped == {i \in 1..Len(ps) : ps[i].distanceFromCenter >= MAX_DISTANCE}
              active == (1..Len(ps)) \ escaped
          IN /\ escaped = {} => (photons' = photons /\ trails' = trails)
             /\ escaped # {} =>
                   /\ Len(trails') = Len(trails) + Cardinality(escaped)
                   /\ \A k \in 1..Len(trails) : trails'[k] = trails[k]
                   /\ \A k \in 1..Cardinality(escaped) :
                         trails'[Len(trails) + k].id = ps[KthIndex(escaped, k)].id
             /\ (escaped # {} /\ active = {}) =>
                   /\ Len(photons') = 1
                   /\ ~photons'[1].isOutside
                   /\ photons'[1].distanceFromCenter = 0
                   /\ photons'[1].position \notin Refs(ps)
                   /\ heap'[photons'[1].position] = 0
             /\ (escaped # {} /\ active # {}) =>
                   /\ Len(photons') = Cardinality(active)
                   /\ \A k \in 1..Cardinality(active) :
                         photons'[k] = ps[KthIndex(active, k)]
    ]_vars

\* a reap has retired one particle and left another, active one in place
C9_Witness ==
  /\ Len(trails) >= 1
  /\ Len(photons) = 1
  /\ photons[1].id < DATE_NOW_BASE
  /\ photons[1].id \notin {trails[k].id : k \in 1..Len(trails)}

IdsInUse ==
  {photons[i].id : i \in 1..Len(photons)}
    \cup {scene.photons[i].id : i \in 1..Len(scene.photons)}
    \cup {trails[k].id : k \in 1..Len(trails)}

\* C11: every spawned particle takes its id from one increasing counter: the
\* id of a particle that enters the live set on a new position object (a new
\* spawn) is greater than every id held by the live set and the trails.
C11_IdsIncrease ==
  [][\A j \in 1..Len(photons') :
       (photons'[j].position \notin DOMAIN heap)
       => \A id \in IdsInUse : photons'[j].id > id
    ]_vars

\* C12: a trail of the trail collection keeps its place, its path length and
\* its point values in every step that is not a reset.
C12_TrailsImmutable ==
  [][(\E velocity \in InitVelocities : Reset(velocity, MaxSpawn))
     \/ \A k \in 1..Len(trails) :
          /\ k <= Len(trails')
          /\ trails'[k] = trails[k]
    ]_vars

\* a trail is held while another particle has been ticked on: its path has
\* grown past the seed
C12_Witness ==
  /\ Len(trails) >= 1
  /\ \E i \in 1..Len(photons) :
        /\ photons[i].id \notin {trails[k].id : k \in 1..Len(trails)}
        /\ Len(photons[i].path) >= 3

\* the photons of the Scene's props that the reap effect retires
EscapedIndices ==
  {i \in 1..Len(scene.photons) : scene.photons[i].distanceFromCenter >= MAX_DISTANCE}

\* C13: every trail of the trail collection has a path of at least 2 points:
\* the reap effect copies a path of 2 or more points, pads a 1-point path
\* with a duplicate of its point and builds the trail of an empty path from
\* two copies of the photon's position.
C13_TrailsHaveTwoPoints ==
  /\ [](\A k \in 1..Len(trails) : Len(trails[k].path) >= 2)
  /\ [][\A r \in ReapInputs :
          Reap(r.t, r.velocity, MaxSpawn)
          => \A k \in 1..Cardinality(EscapedIndices) :
               LET p == scene.photons[KthIndex(EscapedIndices, k)]
                   trailPath == trails'[Len(trails) + k].path
               IN /\ Len(p.path) >= 2 => trailPath = p.path
                  /\ Len(p.path) = 1 => trailPath = <<p.path[1], p.path[1]>>
                  /\ Len(p.path) = 0 =>
                        trailPath = <<heap[p.position], heap[p.position]>>
       ]_vars

\* a trail built from a path of fewer than 2 points: its two points are the
\* same and not the first points of a longer path
C13_Witness ==
  /\ Len(trails) = 1
  /\ Len(trails[1].path) = 2
  /\ trails[1].path[1] = trails[1].path[2]
  /\ trails[1].path[1] = MAX_DISTANCE + 10000

\* C14: the path of every live particle has at least 1 point, and a frame
\* that leaves a particle farther than DISTANCE_THRESHOLD from its last
\* recorded point commits it with a path of at least 2 points that ends at
\* the new position.
C14_LivePathRecorded ==
  /\ [](\A i \in 1..Len(photons) : Len(photons[i].path) >= 1)
  /\ [][\A in \in FrameInputs :
          (Frame(in.speed, in.stepDistance, in.draws) /\ ~scene.isPaused)
          => LET n == Len(scene.photons)
                 p == scene.photons[n]
             IN DistanceTo(Last(p.path), heap'[p.position]) > DISTANCE_THRESHOLD
                => /\ Len(photons'[n].path) >= 2
                   /\ Len(photons'[n].path) = Len(p.path) + 1
                   /\ Last(photons'[n].path) = heap'[p.position]
       ]_vars

\* a replacement particle spawned by the reap effect has been ticked past
\* the threshold
C14_Witness ==
  \E i \in 1..Len(photons) :
     /\ photons[i].id >= DATE_NOW_BASE
     /\ Len(photons[i].path) >= 3

\* distances at and around the sphere surface and the fade floor
ColourSamples == {0, 1, 17500, 34999, 35000, 35001, 135000, 265000, 300000}

\* the start distances of the segments drawn for the live particles and for
\* the trails
DrawnDistances ==
  UNION ({SegmentStartDistances(scene.photons[i].path) : i \in 1..Len(scene.photons)}
         \cup {SegmentStartDistances(trails[k].path) : k \in 1..Len(trails)})

\* C15: the Photon path effect and the TrailRenderer compute the same colour
\* and the same fade for a segment starting at distance d, for every d drawn
\* in this state and every sample d at or below and beyond SPHERE_RADIUS.
C15_SameColourMapping ==
  \A d \in ColourSamples \cup DrawnDistances :
     PhotonSegmentColor(d) = TrailSegmentColor(d)

\* a live particle and a trail both draw a segment that starts beyond the
\* sphere and one that starts inside it
C15_Witness ==
  /\ \E i \in 1..Len(scene.photons) :
        \E d1, d2 \in SegmentStartDistances(scene.photons[i].path) :
           d1 < SPHERE_RADIUS /\ d2 > SPHERE_RADIUS
  /\ \E k \in 1..Len(trails) :
        \E d1, d2 \in SegmentStartDistances(trails[k].path) :
           d1 < SPHERE_RADIUS /\ d2 > SPHERE_RADIUS

\* C16: the distanceFromCenter of every live particle equals the norm of its
\* position.
C16_DistanceIsNorm ==
  \A i \in 1..Len(photons) :
     photons[i].distanceFromCenter = Length(heap[photons[i].position])

\* C17: the step of a frame leaves the particle records it was given
\* unchanged: the position object of every particle of the Scene's props
\* holds the same value after the frame as before it.
C17_StepIsPure ==
  [][\A in \in FrameInputs :
       Frame(in.speed, in.stepDistance, in.draws)
       => \A i \in 1..Len(scene.photons) :
            heap'[scene.photons[i].position] = heap[scene.photons[i].position]
    ]_vars

\* C18: a frame that takes a particle from Inside to Outside leaves its
\* position on the sphere surface, in the direction of the position the
\* step reached, and commits the velocity of magnitude EXIT_SPEED that
\* points outward through that position.
C18_BoundaryTransition ==
  [][\A in \in FrameInputs :
       (Frame(in.speed, in.stepDistance, in.draws) /\ ~scene.isPaused)
       => LET n == Len(scene.photons)
              p == scene.photons[n]
              used == IF in.draws[n] # 0 THEN in.draws[n] * in.stepDistance
                      ELSE p.velocity
              reached == heap[p.position] + used * in.speed
              pos == heap'[p.position]
          IN (~p.isOutside /\ photons'[n].isOutside)
             => /\ Length(pos) = SPHERE_RADIUS
                /\ (pos > 0) = (reached > 0)
                /\ Length(photons'[n].velocity) = EXIT_SPEED
                /\ (photons'[n].velocity > 0) = (pos > 0)
    ]_vars

\* a particle has just crossed: it is Outside, on the surface, and its path
\* ends there
C18_Witness ==
  \E i \in 1..Len(photons) :
     /\ photons[i].isOutside
     /\ Length(heap[photons[i].position]) = SPHERE_RADIUS
     /\ Last(photons[i].path) = heap[photons[i].position]
     /\ Length(photons[i].velocity) = EXIT_SPEED

\* C19: a particle appended by an add request that the Scene has not
\* rendered yet stays in the live collection when a frame or the reap effect
\* of the previous render runs, and an add request itself keeps every live
\* particle and the trails.
C19_AddNotLost ==
  [][/\ (\E velocity \in InitVelocities : AddPhoton(velocity, MaxSpawn))
        => /\ \A i \in 1..Len(photons) : photons'[i] = photons[i]
           /\ Len(photons') <= Len(photons) + 1
           /\ trails' = trails
     /\ ( \/ \E in \in FrameInputs : Frame(in.speed, in.stepDistance, in.draws)
          \/ \E r \in ReapInputs : Reap(r.t, r.velocity, MaxSpawn) )
        => \A i \in 2..Len(photons) :
             (photons[i].position \notin Refs(scene.photons))
             => \E j \in 1..Len(photons') : photons'[j] = photons[i]
    ]_vars

\* whether path s is a prefix of path t
IsPrefix(s, t) == Len(s) <= Len(t) /\ \A k \in 1..Len(s) : s[k] = t[k]

\* C20: the path of a live particle is append-only: from one state of the
\* live collection to the next, the earlier path of a particle is a prefix
\* of its later path.
C20_PathAppendOnly ==
  [][\A i \in 1..Len(photons), j \in 1..Len(photons') :
       (/\ photons[i].id = photons'[j].id
        /\ photons[i].position = photons'[j].position)
       => IsPrefix(photons[i].path, photons'[j].path)
    ]_vars

\* the inputs of a frame of SpecPath
PathFrameInputs ==
  [speed : PathSpeeds, stepDistance : PathStepDistances,
   draws : [1..Len(scene.photons) -> PathDraws]]

\* C21: a frame appends the new position to the path exactly when the path
\* (after the forced append made when it has fewer than 2 points) is empty
\* or the new position is farther than DISTANCE_THRESHOLD from its last
\* point; a move of at most DISTANCE_THRESHOLD appends nothing.
C21_PathDecimated ==
  [][\A in \in PathFrameInputs :
       (Frame(in.speed, in.stepDistance, in.draws) /\ ~scene.isPaused)
       => LET n == Len(scene.photons)
              p == scene.photons[n]
              forced == IF Len(p.path) < 2 THEN Append(p.path, heap[p.position])
                        ELSE p.path
              pos == heap'[p.position]
          IN IF Len(forced) = 0 \/ DistanceTo(Last(forced), pos) > DISTANCE_THRESHOLD
             THEN photons'[n].path = Append(forced, pos)
             ELSE photons'[n].path = forced
    ]_vars

\* a particle has moved exactly DISTANCE_THRESHOLD away from its last
\* recorded point and the move was not recorded
C21_Witness ==
  \E i \in 1..Len(photons) :
     /\ photons[i].distanceFromCenter = Length(heap[photons[i].position])
     /\ DistanceTo(Last(photons[i].path), heap[photons[i].position]) = DISTANCE_THRESHOLD

\* C22: whenever the reap effect retires a particle into a trail, the
\* particle's position at that moment is at least MAX_DISTANCE from the
\* centre.
C22_RetiredBeyondCutoff ==
  [][\A in \in ReapInputs :
       Reap(in.t, in.velocity, MaxSpawn)
       => \A i \in EscapedIndices :
             Length(heap[scene.photons[i].position]) >= MAX_DISTANCE
    ]_vars

\* the ids of the live particles and of the trails
LiveIds == {photons[i].id : i \in 1..Len(photons)}

TrailIds == {trails[i].id : i \in 1..Len(trails)}

\* C24: no id is at the same time the id of a live particle and of a trail.
C24_LiveAndTrailIdsDisjoint == LiveIds \cap TrailIds = {}

\* the effect run on the photons ps calls onPhotonsUpdate: either branch of
\* the effect needs a photon filtered out
ReapUpdates(ps) == Len(activePhotons(ps)) # Len(ps)

\* C25: a run of the reap effect on photons that are all within MAX_DISTANCE
\* issues no update (the live set, the trails and the pending render are
\* unchanged), and the live set a run of the effect stores holds no photon
\* the effect would remove, so the run triggered by that update issues none.
C25_ReapQuiescent ==
  [][\A in \in ReapInputs :
       Reap(in.t, in.velocity, MaxSpawn)
       => /\ ~ReapUpdates(scene.photons)
                => UNCHANGED <<photons, trails, photonsChanged, heap, nextRef>>
          /\ ReapUpdates(scene.photons)
                => /\ ~ReapUpdates(photons')
                   /\ removedPhotons(photons') = <<>>
    ]_vars

\* a particle has been retired, the update was rendered and its effect has
\* run with no frame in between: nothing is pending
C25_Witness ==
  /\ Len(trails) >= 1
  /\ ~effectPending /\ ~photonsChanged /\ staleFrames = 0
  /\ scene.photons = photons
  /\ ~ReapUpdates(photons)

\* the ids createPhoton gives to the photons the user starts with or adds
CounterIds == 0..(MaxSpawn - 1)

\* the step of the live particle `id` has reached the sphere boundary: its
\* position is on or beyond the surface
ReachedBoundary(id) ==
  \E i \in 1..Len(photons) :
     /\ photons[i].id = id
     /\ Length(heap[photons[i].position]) >= SPHERE_RADIUS

====
